---- MODULE Spec2Model ----
(***************************************************************************)
(* Model of check_commits.py: the per-revision validation pipeline that    *)
(* resolves a revision range, checks every revision out in turn and runs   *)
(* the commit-message check, the build matrix and the patch-style check    *)
(* against it.                                                             *)
(*                                                                         *)
(* External commands are environment inputs: each returns "pass" (exit     *)
(* status 0), "fail" (subprocess.CalledProcessError) or "launch" (OSError, *)
(* the command could not be started).  An exception nothing catches makes  *)
(* the interpreter write a traceback to stderr and exit with status 1.     *)
(* Revisions are named by their age rank in the range: 1 is the oldest.    *)
(*                                                                         *)
(* The script is Python 2 (optparse, str output of check_output): an       *)
(* option default that is not a string keeps its type, so num_jobs is the  *)
(* integer 1 unless -j is given.  tempfile.mkdtemp() is taken to succeed.  *)
(* The number of environment faults in one run is bounded by MaxFaults.    *)
(***************************************************************************)
EXTENDS Integers, Sequences, FiniteSets, TLC

VARIABLES
    pc,             \* position of the single thread of control
    opts,           \* the global options object set by parser.parse_args()
    out,            \* get_commit_list(): the lines git log printed, newest first
    commit_tuples,  \* result of get_commit_list(): sequence of <<hash, subject>>
    idx,            \* 1-based position of the for loop of main() in commit_tuples
    bpos,           \* number of run_test_build() calls check_builds() has finished
    tree,           \* revision the working tree is at (0: as found at start)
    scratch,        \* TRUE while the directory made by tempfile.mkdtemp() exists
    pending,        \* exception in flight while the finally block of check_patch() runs
    trace,          \* everything observable so far: external calls, stdout and stderr writes
    exit_code,      \* process exit status (-1 while the process is running)
    exc,            \* exception that ended the process ("none": still running or normal end)
    faults          \* number of environment faults (non-passing outcomes) so far

vars == <<pc, opts, out, commit_tuples, idx, bpos, tree, scratch, pending, trace,
          exit_code, exc, faults>>

-----------------------------------------------------------------------------
(* Bounds of the model *)

\* longest list of revisions git log returns
MaxRevs == 2

\* most environment faults (failing checks, launch errors, failed checkout,
\* failed or pre-empted cleanup) in one run
MaxFaults == 2

-----------------------------------------------------------------------------
(* Options: parser.add_option / parser.set_defaults *)

\* parser.set_defaults(num_jobs=1): an integer, which optparse leaves an integer
DefaultNumJobs == [is_str |-> FALSE, n |-> 1]

\* -j N on the command line is stored as the string "N"
GivenNumJobs == {[is_str |-> TRUE, n |-> 4]}

Defaults ==
    [ exit_on_err     |-> FALSE,
      build_type      |-> "full",
      use_gcc         |-> "yes",
      use_clang       |-> "no",
      run_checkgitlog |-> "yes",
      run_checkpatch  |-> "yes",
      num_jobs        |-> DefaultNumJobs ]

\* every options object parse_args() can return
OptionSpace ==
    [ exit_on_err     : {Defaults.exit_on_err, TRUE},
      build_type      : {Defaults.build_type, "short", "skip"},
      use_gcc         : {Defaults.use_gcc, "no"},
      use_clang       : {Defaults.use_clang, "yes"},
      run_checkgitlog : {Defaults.run_checkgitlog, "no"},
      run_checkpatch  : {Defaults.run_checkpatch, "no"},
      num_jobs        : {Defaults.num_jobs} \cup GivenNumJobs ]

\* main(): compilers = []; append 'gcc' / 'clang' when enabled
Compilers(o) ==
    (IF o.use_gcc = "yes" THEN <<"gcc">> ELSE <<>>) \o
    (IF o.use_clang = "yes" THEN <<"clang">> ELSE <<>>)

-----------------------------------------------------------------------------
(* Observable events *)

NoArch == [compiler |-> "", shared |-> FALSE]

\* one entry of the trace
Ev(k, stage, rev, res) ==
    [k |-> k, stage |-> stage, rev |-> rev, res |-> res,
     arch |-> NoArch, jobs |-> 0, short |-> FALSE]

\* an uncaught exception: the interpreter's traceback on stderr
Traceback(stage, e) == Ev("traceback", stage, 0, e)

\* outcomes the environment may give an external command
Outcomes == IF faults < MaxFaults THEN {"pass", "fail", "launch"} ELSE {"pass"}

Cost(r) == IF r = "pass" THEN 0 ELSE 1

-----------------------------------------------------------------------------
(* get_commit_list *)

\* what `git log --pretty=format:'%H %s' start..end` can print: one line per
\* revision, newest first
GitLogOutputs ==
    { [k \in 1..n |-> [hash |-> n + 1 - k, sub |-> n + 1 - k]] : n \in 0..MaxRevs }

FindAll_matches_empty(text) ==
    IF text = <<>> THEN << <<0, 0>> >>
    ELSE [k \in 1..Len(text) |-> <<text[k].hash, text[k].sub>>]

\* re.findall(r'^(?P<hash>\S+)\s(?P<sub>.*)$', out, re.MULTILINE)
FindAll(text) == [k \in 1..Len(text) |-> <<text[k].hash, text[k].sub>>]

Reverse_not_reversed(s) == s

\* matches.reverse()
Reverse(s) == [k \in 1..Len(s) |-> s[Len(s) + 1 - k]]

get_commit_list(text) == Reverse(FindAll(text))

-----------------------------------------------------------------------------
(* Control flow of main(): which stage follows which *)

StageAfterBuilds(o) ==
    IF o.run_checkpatch = "yes" THEN "check_patch" ELSE "loop"

StageAfterGitLog(o) ==
    IF o.build_type # "skip" THEN "check_builds" ELSE StageAfterBuilds(o)

StageAfterCheckout_skips_message_check(o) == StageAfterGitLog(o)

StageAfterCheckout(o) ==
    IF o.run_checkgitlog = "yes" THEN "check_git_log" ELSE StageAfterGitLog(o)

\* continue at `next`; reaching "loop" again is the next iteration of the for loop
Goto(next) ==
    /\ pc' = next
    /\ idx' = IF next = "loop" THEN idx + 1 ELSE idx
    /\ bpos' = 0
    /\ UNCHANGED <<exit_code, exc>>

\* the process ends: sys.exit(code), or an exception nothing catches (status 1)
Exit(code, e) ==
    /\ pc' = "exit"
    /\ exit_code' = code
    /\ exc' = e
    /\ UNCHANGED <<idx, bpos>>

ExitOnErr_never(o) == "none"

\* if opts.exit_on_err: sys.exit(1) -- else fall out of the handler
ExitOnErr(o) == IF o.exit_on_err THEN "SystemExit" ELSE "none"

(* The exception that leaves each function when its external command ends *)
(* with outcome r ("none": the function returns normally).                 *)

GetCommitListRaises_swallowed(r) == "none"

\* get_commit_list(): the CalledProcessError handler reads the undefined names
\* `start` and `end`; OSError is not handled
GetCommitListRaises(r) ==
    CASE r = "fail"   -> "NameError"
      [] r = "launch" -> "OSError"
      [] OTHER        -> "none"

CheckoutRaises_logged_only(r) == "none"

\* checkout_commit_with_hash(): the CalledProcessError handler reads e.strerror,
\* which CalledProcessError does not have; OSError is not handled
CheckoutRaises(r) ==
    CASE r = "fail"   -> "AttributeError"
      [] r = "launch" -> "OSError"
      [] OTHER        -> "none"

\* check_git_log(): CalledProcessError is policy-gated, OSError ends in sys.exit(1)
CheckGitLogRaises(r, o) ==
    CASE r = "fail"   -> ExitOnErr(o)
      [] r = "launch" -> "SystemExit"
      [] OTHER        -> "none"

RunTestBuildRaises_failure_always_fatal(r, o) ==
    CASE r = "fail"   -> "SystemExit"
      [] r = "launch" -> "OSError"
      [] OTHER        -> "none"

RunTestBuildRaises_launch_as_failure(r, o) ==
    IF r = "pass" THEN "none" ELSE ExitOnErr(o)

\* run_test_build(): CalledProcessError is policy-gated, OSError is not handled
RunTestBuildRaises(r, o) ==
    CASE r = "fail"   -> ExitOnErr(o)
      [] r = "launch" -> "OSError"
      [] OTHER        -> "none"

CheckPatchRaises_failure_always_fatal(r, o) ==
    CASE r = "fail"   -> "SystemExit"
      [] r = "launch" -> "OSError"
      [] OTHER        -> "none"

\* check_patch(), try block: CalledProcessError is policy-gated, OSError is not handled
CheckPatchRaises(r, o) ==
    CASE r = "fail"   -> ExitOnErr(o)
      [] r = "launch" -> "OSError"
      [] OTHER        -> "none"

FinallyRuns_only_without_exception(p) == p = "none"

\* finally: the cleanup runs whatever exception is in flight
FinallyRuns(p) == TRUE

-----------------------------------------------------------------------------
(* What each function writes around its external command *)

\* the interpreter's report of an exception nothing catches
UncaughtReport(stage, raised) ==
    IF raised \in {"none", "SystemExit"} THEN <<>> ELSE <<Traceback(stage, raised)>>

\* the "Passed." line, or the "Fail(ed)." line followed by the captured output
Verdict(stage, rev, r) ==
    CASE r = "pass" -> <<Ev("passed", stage, rev, "none")>>
      [] r = "fail" -> <<Ev("failed", stage, rev, "none"), Ev("output", stage, rev, "none")>>
      [] OTHER      -> <<>>

\* a handler's own "Error: ..." line on stderr, written when the handler gets
\* as far as its sys.exit(1)
ErrorLine(stage, rev, r, raised) ==
    IF r # "pass" /\ raised = "SystemExit" THEN <<Ev("error", stage, rev, r)>> ELSE <<>>

\* separator and "Commit: " lines written at the head of an iteration
CommitHeader(i, c) ==
    (IF i > 1 THEN <<Ev("separator", "main", 0, "none")>> ELSE <<>>) \o
    <<Ev("commit", "main", c[2], "none")>>

-----------------------------------------------------------------------------
Init ==
    /\ pc = "main"
    /\ opts = Defaults
    /\ out = <<>>
    /\ commit_tuples = <<>>
    /\ idx = 1
    /\ bpos = 0
    /\ tree = 0
    /\ scratch = FALSE
    /\ pending = "none"
    /\ trace = <<>>
    /\ exit_code = -1
    /\ exc = "none"
    /\ faults = 0

\* main(), lines 173-188: parse_args, the usage check, os.chdir
ParseArgs ==
    /\ pc = "main"
    /\ \E o \in OptionSpace, nargs \in 0..2, chdir_ok \in BOOLEAN :
         /\ opts' = o
         /\ IF nargs < 2
            THEN /\ trace' = Append(trace, Ev("usage", "main", 0, "none"))
                 /\ Exit(1, "SystemExit")
            ELSE IF ~chdir_ok
            THEN /\ trace' = Append(trace, Ev("error", "chdir", 0, "launch"))
                 /\ Exit(1, "SystemExit")
            ELSE /\ pc' = "get_commit_list"
                 /\ UNCHANGED <<trace, exit_code, exc, idx, bpos>>
    /\ UNCHANGED <<out, commit_tuples, tree, scratch, pending, faults>>

\* get_commit_list(start_ref, end_ref), called at line 196
GetCommitList ==
    /\ pc = "get_commit_list"
    /\ \E r \in Outcomes :
         LET raised == GetCommitListRaises(r)
         IN /\ faults' = faults + Cost(r)
            /\ trace' = trace \o <<Ev("call", "git-log", 0, r)>>
                              \o ErrorLine("git-log", 0, r, raised)
                              \o UncaughtReport("git-log", raised)
            /\ IF raised = "none"
               THEN /\ out' \in (IF r = "pass" THEN GitLogOutputs ELSE {<<>>})
                    /\ commit_tuples' = get_commit_list(out')
                    /\ pc' = "loop"
                    /\ UNCHANGED <<idx, bpos, exit_code, exc>>
               ELSE /\ Exit(1, raised)
                    /\ UNCHANGED <<out, commit_tuples>>
    /\ UNCHANGED <<opts, tree, scratch, pending>>

\* main(): the for loop is exhausted, main() returns
MainReturn ==
    /\ pc = "loop"
    /\ idx > Len(commit_tuples)
    /\ Exit(0, "none")
    /\ UNCHANGED <<opts, out, commit_tuples, tree, scratch, pending, trace, faults>>

TreeAfterCheckout_not_moved(r, h, t) == t

\* git checkout <hash>: the working tree is at h when the command succeeds,
\* and is left where it was when it does not
TreeAfterCheckout(r, h, t) == IF r = "pass" THEN h ELSE t

\* main() lines 198-203 and checkout_commit_with_hash(c[0])
CheckoutCommit ==
    /\ pc = "loop"
    /\ idx <= Len(commit_tuples)
    /\ LET c == commit_tuples[idx]
       IN \E r \in Outcomes :
            LET raised == CheckoutRaises(r)
            IN /\ faults' = faults + Cost(r)
               /\ trace' = trace \o CommitHeader(idx, c)
                                 \o <<Ev("call", "checkout", c[1], r)>>
                                 \o ErrorLine("checkout", c[1], r, raised)
                                 \o UncaughtReport("checkout", raised)
               /\ tree' = TreeAfterCheckout(r, c[1], tree)
               /\ IF raised = "none"
                  THEN Goto(StageAfterCheckout(opts))
                  ELSE Exit(1, raised)
    /\ UNCHANGED <<opts, out, commit_tuples, scratch, pending>>

\* check_git_log()
CheckGitLog ==
    /\ pc = "check_git_log"
    /\ LET rev == commit_tuples[idx][1]
       IN \E r \in Outcomes :
            LET raised == CheckGitLogRaises(r, opts)
            IN /\ faults' = faults + Cost(r)
               /\ trace' = trace \o <<Ev("running", "check-git-log", rev, "none"),
                                      Ev("call", "check-git-log", rev, r)>>
                                 \o Verdict("check-git-log", rev, r)
                                 \o (IF r = "launch"
                                     THEN ErrorLine("check-git-log", rev, r, raised)
                                     ELSE <<>>)
                                 \o UncaughtReport("check-git-log", raised)
               /\ IF raised = "none"
                  THEN Goto(StageAfterGitLog(opts))
                  ELSE Exit(1, raised)
    /\ UNCHANGED <<opts, out, commit_tuples, tree, scratch, pending>>

\* check_builds(): the arch_str of the (n+1)-th call of run_test_build it makes
ArchStr(compilers, n) ==
    [compiler |-> compilers[(n \div 2) + 1], shared |-> (n % 2 = 1)]

\* check_builds(): the calls of run_test_build it makes, in order
BuildPlan(compilers) == [n \in 1..(2 * Len(compilers)) |-> ArchStr(compilers, n - 1)]

\* run_test_build(): cmd = ['devtools/test-build.sh', '-j' + num_jobs] (+ ['-s']) + [arch_str]
BuildCmd(k, rev, o, arch, res) ==
    [Ev(k, "test-build", rev, res) EXCEPT
        !.arch = arch, !.jobs = o.num_jobs.n, !.short = (o.build_type = "short")]

\* '-j' + num_jobs raises TypeError unless num_jobs is a string
JobsFlagRaises(o) == ~o.num_jobs.is_str

\* the Passed / Failed + Output lines of run_test_build
BuildVerdict(rev, o, arch, r) ==
    CASE r = "pass" -> <<BuildCmd("passed", rev, o, arch, "none")>>
      [] r = "fail" -> <<BuildCmd("failed", rev, o, arch, "none"),
                         BuildCmd("output", rev, o, arch, "none")>>
      [] OTHER      -> <<>>

\* one call of run_test_build() made by check_builds()
RunTestBuild ==
    /\ pc = "check_builds"
    /\ bpos < Len(BuildPlan(Compilers(opts)))
    /\ LET rev  == commit_tuples[idx][1]
           arch == BuildPlan(Compilers(opts))[bpos + 1]
       IN IF JobsFlagRaises(opts)
          THEN /\ trace' = trace \o UncaughtReport("test-build", "TypeError")
               /\ Exit(1, "TypeError")
               /\ UNCHANGED faults
          ELSE \E r \in Outcomes :
                 LET raised == RunTestBuildRaises(r, opts)
                 IN /\ faults' = faults + Cost(r)
                    /\ trace' = trace \o <<BuildCmd("running", rev, opts, arch, "none"),
                                           BuildCmd("call", rev, opts, arch, r)>>
                                      \o BuildVerdict(rev, opts, arch, r)
                                      \o UncaughtReport("test-build", raised)
                    /\ IF raised = "none"
                       THEN /\ bpos' = bpos + 1
                            /\ UNCHANGED <<pc, idx, exit_code, exc>>
                       ELSE Exit(1, raised)
    /\ UNCHANGED <<opts, out, commit_tuples, tree, scratch, pending>>

\* check_builds() returns: the loop over compilers is exhausted
CheckBuildsReturn ==
    /\ pc = "check_builds"
    /\ bpos >= Len(BuildPlan(Compilers(opts)))
    /\ Goto(StageAfterBuilds(opts))
    /\ UNCHANGED <<opts, out, commit_tuples, tree, scratch, pending, trace, faults>>

\* check_patch(), lines 85-105: mkdtemp, git format-patch, checkpatches.sh and
\* the except / else clauses.  r1, r2: outcomes of the two commands (r2 is
\* "skipped" when format-patch did not pass); gone: one of them removed the
\* scratch directory.
CheckPatch ==
    /\ pc = "check_patch"
    /\ LET rev == commit_tuples[idx][1]
       IN \E r1 \in Outcomes :
          \E r2 \in (IF r1 = "pass" THEN Outcomes ELSE {"skipped"}), gone \in BOOLEAN :
            LET last  == IF r1 = "pass" THEN r2 ELSE r1
                stage == IF r1 = "pass" THEN "checkpatches" ELSE "format-patch"
                cost  == Cost(last) + (IF gone THEN 1 ELSE 0)
            IN /\ faults + cost <= MaxFaults
               /\ faults' = faults + cost
               /\ scratch' = ~gone
               /\ pending' = CheckPatchRaises(last, opts)
               /\ trace' = trace \o <<Ev("mkdtemp", "check_patch", rev, "none"),
                                      Ev("call", "format-patch", rev, r1)>>
                                 \o (IF r1 = "pass"
                                     THEN <<Ev("running", "checkpatches", rev, "none"),
                                            Ev("call", "checkpatches", rev, r2)>>
                                     ELSE <<>>)
                                 \o Verdict(stage, rev, last)
    /\ pc' = "check_patch_finally"
    /\ UNCHANGED <<opts, out, commit_tuples, idx, bpos, tree, exit_code, exc>>

\* how shutil.rmtree(temp_dir) can end: ENOENT exactly when the directory is gone
RmtreeResults ==
    IF ~scratch THEN {"enoent"}
    ELSE IF faults < MaxFaults THEN {"ok", "error"} ELSE {"ok"}

CleanupRaises_enoent_not_ignored(rm) ==
    IF rm \in {"error", "enoent"} THEN "OSError" ELSE "none"

\* except OSError as e: if e.errno != errno.ENOENT: raise
CleanupRaises(rm) == IF rm = "error" THEN "OSError" ELSE "none"

\* check_patch(), lines 106-111: the finally clause, then the exception in
\* flight (if any) leaves check_patch()
CheckPatchFinally ==
    /\ pc = "check_patch_finally"
    /\ pending' = "none"
    /\ LET rev == commit_tuples[idx][1]
       IN IF FinallyRuns(pending)
          THEN \E rm \in RmtreeResults :
                 LET raised == IF CleanupRaises(rm) # "none"
                               THEN CleanupRaises(rm) ELSE pending
                 IN /\ scratch' = IF rm = "ok" THEN FALSE ELSE scratch
                    /\ faults' = faults + (IF rm = "error" THEN 1 ELSE 0)
                    /\ trace' = trace \o <<Ev("cleanup", "rmtree", rev, rm)>>
                                      \o UncaughtReport("check_patch", raised)
                    /\ IF raised = "none" THEN Goto("loop") ELSE Exit(1, raised)
          ELSE /\ trace' = trace \o UncaughtReport("check_patch", pending)
               /\ Exit(1, pending)
               /\ UNCHANGED <<scratch, faults>>
    /\ UNCHANGED <<opts, out, commit_tuples, tree>>

Next ==
    \/ ParseArgs
    \/ GetCommitList
    \/ MainReturn
    \/ CheckoutCommit
    \/ CheckGitLog
    \/ RunTestBuild
    \/ CheckBuildsReturn
    \/ CheckPatch
    \/ CheckPatchFinally

Spec == Init /\ [][Next]_vars

-----------------------------------------------------------------------------
(* Reading the trace *)

\* the validation stages' external commands
CheckStages == {"check-git-log", "test-build", "format-patch", "checkpatches"}

IsCheckout(e) == e.k = "call" /\ e.stage = "checkout"

IsStageCall(e) == e.k = "call" /\ e.stage \in CheckStages

\* the revisions `git checkout` was run for, in order
CheckoutRevs ==
    LET cs == SelectSeq(trace, IsCheckout) IN [k \in 1..Len(cs) |-> cs[k].rev]

\* git log exited with status 0: the range is resolved
RangeResolved ==
    \E p \in 1..Len(trace) :
       trace[p].k = "call" /\ trace[p].stage = "git-log" /\ trace[p].res = "pass"

\* the order the range is to be visited in, read off the log output: last line first
OldestFirst == [k \in 1..Len(out) |-> out[Len(out) + 1 - k].hash]

IsPrefix(s, t) == Len(s) <= Len(t) /\ \A k \in 1..Len(s) : s[k] = t[k]

\* positions of the checkouts made before position p of the trace
CheckoutsBefore(p) == {q \in 1..(p - 1) : IsCheckout(trace[q])}

\* positions of the checks that returned a failure status
FailedChecks == {p \in 1..Len(trace) : IsStageCall(trace[p]) /\ trace[p].res = "fail"}

\* the build invocations issued for revision rev, in order
BuildCallsOf(rev) ==
    LET IsBuild(e) == e.k = "call" /\ e.stage = "test-build" /\ e.rev = rev
        cs == SelectSeq(trace, IsBuild)
    IN [k \in 1..Len(cs) |-> cs[k].arch]

HasCall(stage, rev) ==
    \E p \in 1..Len(trace) :
       trace[p].k = "call" /\ trace[p].stage = stage /\ trace[p].rev = rev

-----------------------------------------------------------------------------
(* C1: the revisions git log lists newest-first as r1..rN are checked out   *)
(* and validated in the reverse order rN..r1, oldest first, each at most     *)
(* once: the checkouts made so far are always an initial part of that order,*)
(* every stage command runs against the revision checked out last, and a    *)
(* run that returns from main() has checked out all of them.                *)
C1_OldestFirstOrder ==
    /\ IsPrefix(CheckoutRevs, OldestFirst)
    /\ \A j, k \in 1..Len(CheckoutRevs) : j # k => CheckoutRevs[j] # CheckoutRevs[k]
    /\ \A p \in 1..Len(trace) :
         IsStageCall(trace[p]) =>
            /\ CheckoutsBefore(p) # {}
            /\ \E q \in CheckoutsBefore(p) :
                 /\ \A q2 \in CheckoutsBefore(p) : q2 <= q
                 /\ trace[q].rev = trace[p].rev
                 /\ trace[q].res = "pass"
    /\ (pc = "exit" /\ exit_code = 0) => CheckoutRevs = OldestFirst

\* a run over two or more revisions has returned, with stages run for each
C1_Witness ==
    /\ pc = "exit" /\ exit_code = 0
    /\ Len(out) >= 2
    /\ CheckoutRevs = OldestFirst
    /\ \A k \in 1..Len(out) : HasCall("check-git-log", out[k].hash)

(* C2: under exit_on_err = False, when some checks return a failure status  *)
(* and nothing else goes wrong (every command can be launched, the range     *)
(* resolves, every checkout and every cleanup succeeds), the run goes on     *)
(* until the revision list is exhausted: it ends with every revision checked *)
(* out and every enabled stage run for every revision.                       *)
C2_ContinuesThroughFailures ==
    ( /\ pc = "exit"
      /\ ~opts.exit_on_err
      /\ RangeResolved
      /\ FailedChecks # {}
      /\ \A p \in 1..Len(trace) :
           /\ (trace[p].k = "call" /\ trace[p].res # "pass") => p \in FailedChecks
           /\ trace[p].k = "cleanup" => trace[p].res # "error" )
    =>
    ( /\ exit_code = 0
      /\ CheckoutRevs = OldestFirst
      /\ \A k \in 1..Len(out) :
           LET rev == out[k].hash
           IN /\ opts.run_checkgitlog = "yes" => HasCall("check-git-log", rev)
              /\ opts.build_type # "skip" =>
                    Len(BuildCallsOf(rev)) = 2 * Len(Compilers(opts))
              /\ opts.run_checkpatch = "yes" => HasCall("format-patch", rev) )

(* C3: under exit_on_err = True a check (message-style, a build             *)
(* configuration, patch generation or patch-style) that returns a failure    *)
(* status is reported and ends the run: the Failed line and the captured     *)
(* output follow it directly, nothing but the cleanup of check_patch()       *)
(* happens after that, no further stage is started, no later revision is     *)
(* checked out, and the process exits with a non-zero status.                *)
C3_ExitOnFirstFailure ==
    opts.exit_on_err =>
       \A p \in FailedChecks :
          /\ pc \in {"check_patch_finally", "exit"}
          /\ pc = "check_patch_finally" => trace[p].stage \in {"format-patch", "checkpatches"}
          /\ pc = "exit" => exit_code # 0
          /\ p + 2 <= Len(trace)
          /\ trace[p + 1].k = "failed" /\ trace[p + 1].stage = trace[p].stage
          /\ trace[p + 2].k = "output" /\ trace[p + 2].stage = trace[p].stage
          /\ \A q \in (p + 3)..Len(trace) : trace[q].k \in {"cleanup", "traceback"}

\* a build failed under exit-on-error with a later revision still to come,
\* and the process has ended
C3_Witness ==
    /\ opts.exit_on_err
    /\ pc = "exit"
    /\ idx < Len(commit_tuples)
    /\ \E p \in FailedChecks : trace[p].stage = "test-build"

UsageInvalid == \E p \in 1..Len(trace) : trace[p].k = "usage"

RangeFailed ==
    \E p \in 1..Len(trace) :
       trace[p].k = "call" /\ trace[p].stage = "git-log" /\ trace[p].res # "pass"

CheckoutFailed ==
    \E p \in 1..Len(trace) : IsCheckout(trace[p]) /\ trace[p].res # "pass"

FatalCondition ==
    \/ UsageInvalid \/ RangeFailed \/ CheckoutFailed
    \/ opts.exit_on_err /\ FailedChecks # {}
    \/ \E p \in 1..Len(trace) :
          \/ trace[p].k \in {"error", "traceback"}
          \/ trace[p].k = "call" /\ trace[p].res = "launch"
          \/ trace[p].k = "cleanup" /\ trace[p].res = "error"

C5_EmptyRangeNoOp ==
    (RangeResolved /\ out = <<>>) =>
       /\ \A p \in 1..Len(trace) :
            /\ trace[p].k = "call" => trace[p].stage = "git-log"
            /\ trace[p].k \notin {"commit", "running", "mkdtemp", "cleanup"}
       /\ pc \in {"loop", "exit"}
       /\ pc = "exit" => exit_code = 0
       /\ tree = 0

\* the run over an empty range has ended
C5_Witness ==
    /\ RangeResolved /\ out = <<>>
    /\ pc = "exit" /\ exit_code = 0

(* C6, as stated: whenever control is outside the finally clause of         *)
(* check_patch(), the scratch directory does not exist.                      *)
C6_ScratchGoneOnEveryExit ==
    pc # "check_patch_finally" => ~scratch

(* C6, amended: the scratch directory is gone when check_patch() is left,   *)
(* unless shutil.rmtree itself failed with an error other than ENOENT; that  *)
(* error ends the process at once.  So whenever a stage or a checkout is     *)
(* about to start no scratch directory exists, and every scratch directory   *)
(* made earlier has had its removal attempted, on every path out of the try  *)
(* block (pass, failure under either policy, launch failure).                *)
C6_ScratchGoneUnlessCleanupFails ==
    /\ (scratch /\ pc # "check_patch_finally") =>
          /\ pc = "exit" /\ exit_code # 0
          /\ Len(trace) >= 2
          /\ trace[Len(trace) - 1].k = "cleanup"
          /\ trace[Len(trace) - 1].res = "error"
    /\ pc \in {"loop", "check_git_log", "check_builds", "check_patch"} => ~scratch
    /\ pc # "check_patch_finally" =>
          \A p \in 1..Len(trace) :
             trace[p].k = "mkdtemp" =>
                \E q \in (p + 1)..Len(trace) :
                   trace[q].k = "cleanup" /\ trace[q].rev = trace[p].rev

\* the checker failed under exit-on-error, the failure was reported, and the
\* process ended with the scratch directory removed
C6_Witness ==
    /\ pc = "exit" /\ opts.exit_on_err /\ ~scratch
    /\ \E p \in FailedChecks :
          /\ trace[p].stage = "checkpatches"
          /\ trace[p + 1].k = "failed"
          /\ \E q \in (p + 1)..Len(trace) : trace[q].k = "cleanup" /\ trace[q].res = "ok"

ToolchainEnabled(o, c) ==
    \/ c = "gcc" /\ o.use_gcc = "yes"
    \/ c = "clang" /\ o.use_clang = "yes"

ExpectedMatrix(o) ==
    LET Wanted(a) == ToolchainEnabled(o, a.compiler)
    IN IF o.build_type = "skip" THEN <<>>
       ELSE SelectSeq(<< [compiler |-> "gcc",   shared |-> FALSE],
                         [compiler |-> "gcc",   shared |-> TRUE],
                         [compiler |-> "clang", shared |-> FALSE],
                         [compiler |-> "clang", shared |-> TRUE] >>, Wanted)

\* a fatal condition of the message-style check or of the build stage of
\* revision rev: a command that could not be launched, or a failed check under
\* exit-on-error
AbortedUpToBuild(rev) ==
    \E p \in 1..Len(trace) :
       /\ trace[p].k = "call" /\ trace[p].rev = rev
       /\ trace[p].stage \in {"check-git-log", "test-build"}
       /\ \/ trace[p].res = "launch"
          \/ trace[p].res = "fail" /\ opts.exit_on_err

\* revision rev was checked out
CheckedOut(rev) ==
    \E p \in 1..Len(trace) :
       IsCheckout(trace[p]) /\ trace[p].rev = rev /\ trace[p].res = "pass"

(* C7: the build stage of a revision issues two invocations per enabled     *)
(* toolchain, default linkage then shared, gcc before clang (four, in the    *)
(* order gcc/default, gcc/shared, clang/default, clang/shared, when both are *)
(* enabled), and none when the build type is skip: the invocations issued    *)
(* for a revision are always an initial part of that list, and when the      *)
(* process has ended they are the whole list for every revision that was     *)
(* checked out, unless a fatal condition (a command that could not be        *)
(* launched, a failed check under exit-on-error) ended the run in that       *)
(* revision's message-style check or build stage.                            *)
C7_BuildMatrix ==
    \A k \in 1..Len(commit_tuples) :
       LET rev    == commit_tuples[k][1]
           issued == BuildCallsOf(rev)
       IN /\ IsPrefix(issued, ExpectedMatrix(opts))
          /\ (pc = "exit" /\ CheckedOut(rev) /\ ~AbortedUpToBuild(rev)) =>
                issued = ExpectedMatrix(opts)

(* C8: a failed checkout ends the process whatever the policy, with an      *)
(* error report on stderr that carries the revision id and the underlying    *)
(* error text, and no stage is run for that revision or a later one.         *)
C8_CheckoutFailureReported ==
    \A p \in 1..Len(trace) :
       (IsCheckout(trace[p]) /\ trace[p].res = "fail") =>
          /\ pc = "exit" /\ exit_code # 0
          /\ \E q \in (p + 1)..Len(trace) :
                /\ trace[q].k = "error"
                /\ trace[q].stage = "checkout"
                /\ trace[q].rev = trace[p].rev
          /\ \A q \in (p + 1)..Len(trace) :
                trace[q].k \notin {"call", "running", "commit", "mkdtemp"}

(* C9: when git log exits non-zero the run aborts at once whatever the      *)
(* policy: the process ends with a non-zero status and no checkout and no    *)
(* stage is ever started.                                                    *)
C9_RangeFailureFatal ==
    \A p \in 1..Len(trace) :
       (trace[p].k = "call" /\ trace[p].stage = "git-log" /\ trace[p].res = "fail") =>
          /\ pc = "exit" /\ exit_code \notin {0, -1}
          /\ tree = 0
          /\ \A q \in 1..Len(trace) :
                trace[q].k \in {"call", "running", "commit", "mkdtemp"} => q = p

\* git log failed under the continue policy and the process has ended
C9_Witness ==
    /\ ~opts.exit_on_err
    /\ pc = "exit"
    /\ \E p \in 1..Len(trace) :
          trace[p].k = "call" /\ trace[p].stage = "git-log" /\ trace[p].res = "fail"

(* C10: a stage command that cannot be launched (message-style check, a     *)
(* build invocation, patch generation, the patch-style checker) ends the run *)
(* whatever the policy: it gets no Passed or Failed verdict, nothing but the *)
(* cleanup of check_patch() and the error report follows it, no later stage  *)
(* or revision is processed, and the exit status is non-zero.                *)
C10_LaunchFailureFatal ==
    \A p \in 1..Len(trace) :
       (IsStageCall(trace[p]) /\ trace[p].res = "launch") =>
          /\ pc \in {"check_patch_finally", "exit"}
          /\ pc = "check_patch_finally" => trace[p].stage \in {"format-patch", "checkpatches"}
          /\ pc = "exit" => exit_code \notin {0, -1}
          /\ \A q \in (p + 1)..Len(trace) :
                trace[q].k \in {"error", "traceback", "cleanup"}

\* a build invocation could not be launched under the continue policy with a
\* later revision still to come, and the process has ended
C10_Witness ==
    /\ ~opts.exit_on_err
    /\ pc = "exit"
    /\ idx < Len(commit_tuples)
    /\ \E p \in 1..Len(trace) :
          IsStageCall(trace[p]) /\ trace[p].stage = "test-build" /\ trace[p].res = "launch"

-----------------------------------------------------------------------------
\* the stage an event of the trace belongs to: 0 checkout, 1 message-style
\* check, 2 build matrix, 3 patch-style check (-1: none of them)
StageRank(e) ==
    CASE e.stage = "checkout"                                         -> 0
      [] e.stage = "check-git-log"                                    -> 1
      [] e.stage = "test-build"                                       -> 2
      [] e.stage \in {"check_patch", "format-patch", "checkpatches", "rmtree"} -> 3
      [] OTHER                                                        -> -1

\* the events by which a checkout or a stage acts on a revision
IsStageEvent(e) ==
    /\ e.k \in {"running", "call", "passed", "failed", "output", "mkdtemp", "cleanup"}
    /\ StageRank(e) >= 0

\* place of revision rev in the oldest-first order
VisitIndex(rev) == CHOOSE k \in 1..Len(out) : out[Len(out) + 1 - k].hash = rev

\* every enabled stage of revision rev has run to its end before position q
StagesCompleteBefore(rev, q) ==
    /\ opts.run_checkgitlog = "yes" =>
          \E p \in 1..(q - 1) :
             /\ trace[p].k \in {"passed", "failed"}
             /\ trace[p].stage = "check-git-log" /\ trace[p].rev = rev
    /\ opts.build_type # "skip" =>
          /\ Len(BuildCallsOf(rev)) = 2 * Len(Compilers(opts))
          /\ \A p \in 1..Len(trace) :
                (trace[p].k = "call" /\ trace[p].stage = "test-build" /\ trace[p].rev = rev)
                   => /\ p + 1 < q
                      /\ trace[p + 1].k \in {"passed", "failed"}
    /\ opts.run_checkpatch = "yes" =>
          \E p \in 1..(q - 1) : trace[p].k = "cleanup" /\ trace[p].rev = rev

(* C11: within every revision the stages run in the order message-style     *)
(* check, build matrix, patch-style check; no stage of a revision begins     *)
(* before that revision's checkout has succeeded; and no revision is         *)
(* checked out before every enabled stage of the revision before it has run  *)
(* to its end.                                                               *)
C11_StageOrder ==
    /\ LET acts == SelectSeq(trace, IsStageEvent)
       IN  \A i \in 1..(Len(acts) - 1) :
              \/ VisitIndex(acts[i].rev) < VisitIndex(acts[i + 1].rev)
              \/ /\ acts[i].rev = acts[i + 1].rev
                 /\ StageRank(acts[i]) <= StageRank(acts[i + 1])
    /\ \A q \in 1..Len(trace) :
         (IsStageEvent(trace[q]) /\ StageRank(trace[q]) > 0) =>
            \E p \in 1..(q - 1) :
               IsCheckout(trace[p]) /\ trace[p].rev = trace[q].rev /\ trace[p].res = "pass"
    /\ \A q \in 1..Len(trace) :
         IsCheckout(trace[q]) =>
            \A p \in 1..(q - 1) :
               IsCheckout(trace[p]) => StagesCompleteBefore(trace[p].rev, q)

\* two revisions went through all three stages, with two builds each
C11_Witness ==
    /\ pc = "exit" /\ exit_code = 0
    /\ Len(out) = 2
    /\ opts.run_checkgitlog = "yes" /\ opts.run_checkpatch = "yes"
    /\ opts.build_type # "skip" /\ Len(Compilers(opts)) >= 1
    /\ \A k \in 1..Len(out) : HasCall("checkpatches", out[k].hash)

-----------------------------------------------------------------------------
IsBuildCall(e) == e.k = "call" /\ e.stage = "test-build"

(* C13: a build configuration that fails does not keep the remaining planned *)
(* configurations of the revision from being attempted when exit_on_err is   *)
(* off; when it is on, the first failing configuration ends the whole run:   *)
(* no further configuration, no patch-style check and no later revision.     *)
C13_BuildFailurePolicy ==
    \A p \in 1..Len(trace) :
       (IsBuildCall(trace[p]) /\ trace[p].res = "fail") =>
          IF opts.exit_on_err
          THEN /\ pc = "exit" /\ exit_code # 0
               /\ \A q \in (p + 1)..Len(trace) : trace[q].k \in {"failed", "output"}
          ELSE LET rev == trace[p].rev IN
               \/ BuildCallsOf(rev) = ExpectedMatrix(opts)
               \/ pc = "check_builds" /\ commit_tuples[idx][1] = rev
               \/ \E q \in (p + 1)..Len(trace) :
                     IsBuildCall(trace[q]) /\ trace[q].rev = rev /\ trace[q].res = "launch"

\* the first of four planned configurations failed and the other three ran
C13_Witness ==
    /\ ~opts.exit_on_err
    /\ Len(ExpectedMatrix(opts)) = 4
    /\ \E p \in 1..Len(trace) :
          /\ IsBuildCall(trace[p]) /\ trace[p].res = "fail"
          /\ trace[p].arch = ExpectedMatrix(opts)[1]
          /\ BuildCallsOf(trace[p].rev) = ExpectedMatrix(opts)
          /\ HasCall("format-patch", trace[p].rev)

-----------------------------------------------------------------------------
\* two events belong to the same stage invocation: same revision, same stage
\* (patch generation and style checker are one stage), same build configuration
SameInvocation(e, f) ==
    /\ e.rev = f.rev
    /\ StageRank(e) = StageRank(f)
    /\ e.arch = f.arch /\ e.short = f.short

IsVerdict(e) == e.k \in {"passed", "failed"}

\* the "Running: ..." line of the invocation event number q belongs to
HasProgressLineBefore(q) ==
    \E p \in 1..(q - 1) : trace[p].k = "running" /\ SameInvocation(trace[p], trace[q])

-----------------------------------------------------------------------------
\* the call at position p is a failure that ends the process
TerminatingFailure(p) ==
    /\ trace[p].k = "call"
    /\ \/ trace[p].res = "launch"
       \/ trace[p].res = "fail" /\ trace[p].stage \in {"git-log", "checkout"}
       \/ trace[p].res = "fail" /\ trace[p].stage \in CheckStages /\ opts.exit_on_err

\* what was written about the failed call at position p: the handler's
\* "Error: ..." line, the "Fail(ed)." line with the captured output, or, for a
\* command that could not be launched, the interpreter's traceback of the
\* OSError itself (an rmtree error raised in between replaces that OSError,
\* and the traceback is then the one of the rmtree error)
ReportedAfter(p) ==
    \E q \in (p + 1)..Len(trace) :
       \/ /\ trace[q].k = "error"
          /\ trace[q].stage = trace[p].stage /\ trace[q].rev = trace[p].rev
       \/ /\ trace[q].k = "failed"
          /\ trace[q].stage = trace[p].stage /\ trace[q].rev = trace[p].rev
          /\ q < Len(trace) /\ trace[q + 1].k = "output"
       \/ /\ trace[p].res = "launch"
          /\ trace[q].k = "traceback" /\ trace[q].res = "OSError"
          /\ \A c \in (p + 1)..(q - 1) : ~(trace[c].k = "cleanup" /\ trace[c].res = "error")

(* C15: every failure that ends the process (range not resolved, checkout   *)
(* failed, command not launched, check failed under exit-on-error) has been  *)
(* reported, with the failing step and its error or captured output, by the  *)
(* time the process has terminated.                                          *)
C15_FailureReportedBeforeExit ==
    pc = "exit" => \A p \in 1..Len(trace) : TerminatingFailure(p) => ReportedAfter(p)

-----------------------------------------------------------------------------
\* every command run so far exited with status 0 and no cleanup failed
AllCommandsPassed ==
    \A p \in 1..Len(trace) :
       /\ trace[p].k = "call" => trace[p].res = "pass"
       /\ trace[p].k = "cleanup" => trace[p].res # "error"

(* C16: the job count defaults to 1 and reaches every build invocation       *)
(* unchanged: a run with default options over a non-empty range in which     *)
(* every command succeeds issues each planned build invocation of every      *)
(* revision with job count 1 and goes on to the patch-style check.           *)
C16_DefaultJobCountForwarded ==
    /\ Defaults.num_jobs.n = 1
    /\ \A p \in 1..Len(trace) : IsBuildCall(trace[p]) => trace[p].jobs = opts.num_jobs.n
    /\ (pc = "exit" /\ opts = Defaults /\ RangeResolved /\ commit_tuples # <<>> /\ AllCommandsPassed) =>
          \A k \in 1..Len(commit_tuples) :
             LET rev == commit_tuples[k][1]
             IN /\ BuildCallsOf(rev) = ExpectedMatrix(opts)
                /\ \A p \in 1..Len(trace) :
                      (IsBuildCall(trace[p]) /\ trace[p].rev = rev) => trace[p].jobs = 1
                /\ HasCall("format-patch", rev)

-----------------------------------------------------------------------------
IsCleanup(e) == e.k = "cleanup"

\* the command of check_patch() that ran last before the cleanup at position q
LastPatchCall(q) ==
    LET ps == {p \in 1..(q - 1) :
                 trace[p].k = "call" /\ trace[p].stage \in {"format-patch", "checkpatches"}}
    IN trace[CHOOSE p \in ps : \A r \in ps : r <= p]

\* the try block of check_patch() left no exception in flight
TryBlockReturned(q) ==
    \/ LastPatchCall(q).res = "pass"
    \/ LastPatchCall(q).res = "fail" /\ ~opts.exit_on_err

(* C17: in the cleanup of check_patch() a scratch directory that is already *)
(* gone is no error, the run goes on as it does after a successful removal;  *)
(* any other failure of the removal leaves check_patch() as an exception and *)
(* ends the process, whatever exit_on_err is and whether the checker passed  *)
(* or failed.                                                                *)
C17_CleanupErrors ==
    \A q \in 1..Len(trace) :
       IsCleanup(trace[q]) =>
          IF trace[q].res = "error"
          THEN /\ pc = "exit" /\ exit_code # 0 /\ exc = "OSError"
               /\ Len(trace) = q + 1 /\ trace[q + 1].k = "traceback"
          ELSE TryBlockReturned(q) =>
                  /\ q = Len(trace) => (pc = "loop" \/ (pc = "exit" /\ exit_code = 0))
                  /\ q < Len(trace) => trace[q + 1].k \in {"separator", "commit"}

\* under the continue policy the run went on after a cleanup that found the
\* directory gone, and was ended by a failed cleanup after the checker passed
C17_Witness ==
    /\ ~opts.exit_on_err
    /\ pc = "exit" /\ exit_code = 1
    /\ \E q \in 1..(Len(trace) - 1) :
          /\ IsCleanup(trace[q]) /\ trace[q].res = "enoent"
          /\ trace[q + 1].k = "separator"
    /\ \E q \in 1..Len(trace) :
          /\ IsCleanup(trace[q]) /\ trace[q].res = "error"
          /\ LastPatchCall(q).stage = "checkpatches" /\ LastPatchCall(q).res = "pass"

-----------------------------------------------------------------------------
PatchGenerationFailed(p) ==
    trace[p].k = "call" /\ trace[p].stage = "format-patch" /\ trace[p].res = "fail"

\* what the policy makes of the failed check at position p once check_patch()
\* has been left: the process has ended with a non-zero status and nothing
\* more was started, or the run went on (to the next revision, if there is one)
PolicyGated(p) ==
    IF opts.exit_on_err
    THEN /\ pc = "exit" /\ exit_code # 0
         /\ \A q \in (p + 1)..Len(trace) : trace[q].k \notin {"commit", "call", "running", "mkdtemp"}
    ELSE pc = "exit" =>
            \/ exit_code = 0
            \/ \E q \in (p + 1)..Len(trace) : trace[q].k = "commit"

\* no scratch directory was made after position p
NoLaterScratch(p) == \A q \in (p + 1)..Len(trace) : trace[q].k # "mkdtemp"

(* C18, as stated: when git format-patch fails for a revision the style      *)
(* checker is not run for it, the failure is policy-gated (the run goes on   *)
(* to the next revision when exit_on_err is off, the process ends when it is *)
(* on), and in both cases the scratch directory has been removed.            *)
C18_PatchGenerationFailure_AsStated ==
    \A p \in 1..Len(trace) :
       PatchGenerationFailed(p) =>
          /\ ~HasCall("checkpatches", trace[p].rev)
          /\ pc # "check_patch_finally" =>
                /\ \E q \in (p + 1)..Len(trace) :
                      /\ IsCleanup(trace[q]) /\ trace[q].rev = trace[p].rev
                      /\ trace[q].res # "error"
                /\ NoLaterScratch(p) => ~scratch
                /\ PolicyGated(p)

(* C18, amended: when git format-patch fails for a revision the style        *)
(* checker is not run for it and the cleanup is attempted; unless the        *)
(* removal itself fails with an error other than ENOENT, the directory is    *)
(* gone and the failure is policy-gated (the run goes on to the next         *)
(* revision when exit_on_err is off, the process ends when it is on); a      *)
(* failed removal ends the process under either policy and leaves the        *)
(* directory behind.                                                         *)
C18_PatchGenerationFailure ==
    \A p \in 1..Len(trace) :
       PatchGenerationFailed(p) =>
          /\ ~HasCall("checkpatches", trace[p].rev)
          /\ pc # "check_patch_finally" =>
                \E q \in (p + 1)..Len(trace) :
                   /\ IsCleanup(trace[q]) /\ trace[q].rev = trace[p].rev
                   /\ IF trace[q].res = "error"
                      THEN pc = "exit" /\ exit_code # 0 /\ scratch
                      ELSE /\ NoLaterScratch(p) => ~scratch
                           /\ PolicyGated(p)

\* under the continue policy patch generation failed for the first revision,
\* the directory was removed and the second revision was checked out
C18_Witness ==
    /\ ~opts.exit_on_err /\ ~scratch
    /\ \E p \in 1..Len(trace) :
          /\ PatchGenerationFailed(p)
          /\ \E q \in (p + 1)..Len(trace) : IsCleanup(trace[q]) /\ trace[q].res = "ok"
          /\ \E q \in (p + 1)..Len(trace) : IsCheckout(trace[q]) /\ trace[q].res = "pass"

-----------------------------------------------------------------------------
\* the revision of the latest successful git checkout, 0 before the first
LastCheckedOut ==
    LET ps == {p \in 1..Len(trace) : IsCheckout(trace[p]) /\ trace[p].res = "pass"}
    IN IF ps = {} THEN 0 ELSE trace[CHOOSE p \in ps : \A q \in ps : q <= p].rev

(* C19: only checkout_commit_with_hash moves the working tree and nothing   *)
(* moves it back: the tree is always at the revision checked out last, so a  *)
(* run that completes over a non-empty range leaves it at the newest         *)
(* revision of the range, and a run ended by a failing check leaves it at    *)
(* the revision whose check failed.                                          *)
C19_TreeAtLastCheckout ==
    /\ tree = LastCheckedOut
    /\ (pc = "exit" /\ exit_code = 0 /\ RangeResolved /\ out # <<>>) => tree = out[1].hash
    /\ (pc = "exit" /\ opts.exit_on_err) => \A p \in FailedChecks : tree = trace[p].rev

\* a check of the second revision failed under exit-on-error and ended the
\* run, with the tree at that revision
C19_Witness ==
    /\ pc = "exit" /\ opts.exit_on_err
    /\ Len(commit_tuples) = 2
    /\ \E p \in FailedChecks : trace[p].rev = commit_tuples[2][1] /\ tree = trace[p].rev

====
